---------------------------- MODULE Spec2Model ----------------------------
(***************************************************************************)
(* Order-to-file reconciliation and staging engine of livipy (orders.py,   *)
(* dirmap.py).  Strings are sequences of one-character strings, so that    *)
(* os.path.splitext, str.split, str(i) and the "Set Of <N>" regular        *)
(* expression are computed the way the code computes them.                 *)
(***************************************************************************)
EXTENDS Integers, Sequences, FiniteSets, TLC

VARIABLES SKU_DIR_FILENAMES, orders, temp, copies, error, ret, nConfirm, nCopy, lastOp

vars == <<SKU_DIR_FILENAMES, orders, temp, copies, error, ret, nConfirm, nCopy, lastOp>>

(* ------------------------------ bounds --------------------------------- *)
MaxOrders == 2
MaxConfirm == 2
MaxCopy == 2

(* ------------------------- characters and text -------------------------- *)
\* Python's None; no filename is equal to it (characters are 1-letter strings).
None == <<"None">>

ascii_lowercase ==
  <<"a","b","c","d","e","f","g","h","i","j","k","l","m",
    "n","o","p","q","r","s","t","u","v","w","x","y","z">>

ascii_uppercase ==
  <<"A","B","C","D","E","F","G","H","I","J","K","L","M",
    "N","O","P","Q","R","S","T","U","V","W","X","Y","Z">>

DigitChar == <<"0","1","2","3","4","5","6","7","8","9">>

IsDigit(c) == \E d \in 1..Len(DigitChar) : DigitChar[d] = c

DigitVal(c) == (CHOOSE d \in 1..Len(DigitChar) : DigitChar[d] = c) - 1

\* re.IGNORECASE: a letter matches in either case.
Lower(c) ==
  IF \E k \in 1..Len(ascii_uppercase) : ascii_uppercase[k] = c
  THEN ascii_lowercase[CHOOSE k \in 1..Len(ascii_uppercase) : ascii_uppercase[k] = c]
  ELSE c

\* int("27")
RECURSIVE IntOf(_)
IntOf(ds) ==
  IF Len(ds) = 0 THEN 0
  ELSE 10 * IntOf(SubSeq(ds, 1, Len(ds) - 1)) + DigitVal(ds[Len(ds)])

\* str(i), i >= 0
RECURSIVE Str(_)
Str(i) ==
  IF i < 10 THEN <<DigitChar[i + 1]>>
  ELSE Str(i \div 10) \o <<DigitChar[(i % 10) + 1]>>

(* ----------------------------- get_set_size ----------------------------- *)
SetOfPattern == <<"s","e","t"," ","o","f"," ">>

\* "Set Of \d" matches at position p of s (case-insensitively)
MatchAt(s, p) ==
  /\ p + Len(SetOfPattern) <= Len(s)
  /\ \A k \in 1..Len(SetOfPattern) : Lower(s[p + k - 1]) = SetOfPattern[k]
  /\ IsDigit(s[p + Len(SetOfPattern)])

\* last index of the greedy digit run (\d+) starting at q
RECURSIVE DigitsEnd(_, _)
DigitsEnd(s, q) ==
  IF q + 1 <= Len(s) /\ IsDigit(s[q + 1]) THEN DigitsEnd(s, q + 1) ELSE q

get_set_size(set_str) ==
  IF \E p \in 1..Len(set_str) : MatchAt(set_str, p)
  THEN LET p == CHOOSE x \in 1..Len(set_str) :
                  /\ MatchAt(set_str, x)
                  /\ \A y \in 1..(x - 1) : ~MatchAt(set_str, y)
           q == p + Len(SetOfPattern)
       IN  IntOf(SubSeq(set_str, q, DigitsEnd(set_str, q)))
  ELSE 1

(* ---------------------------- filename_lookup --------------------------- *)
\* p.rfind(".") looking from index k down; 0 if there is none
RECURSIVE RFindDot(_, _)
RFindDot(p, k) ==
  IF k = 0 THEN 0 ELSE IF p[k] = "." THEN k ELSE RFindDot(p, k - 1)

LastDot(p) == RFindDot(p, Len(p))

\* os.path.splitext(p): <<root, ext>>; leading dots do not start an extension
splitext(p) ==
  LET d == LastDot(p) IN
  IF d > 0 /\ \E j \in 1..(d - 1) : p[j] # "."
  THEN <<SubSeq(p, 1, d - 1), SubSeq(p, d, Len(p))>>
  ELSE <<p, <<>>>>

\* the scan of filename_lookup from index k on
RECURSIVE LookupFrom(_, _, _)
LookupFrom(filename, dir_list, k) ==
  IF k > Len(dir_list) THEN None
  ELSE IF splitext(dir_list[k])[1] = filename THEN dir_list[k]
  ELSE LookupFrom(filename, dir_list, k + 1)

\* a lookup that takes the key as a prefix of the name (str.startswith)
filename_lookup_prefix(filename, dir_list) ==
  IF \E k \in 1..Len(dir_list) :
       /\ Len(dir_list[k]) >= Len(filename)
       /\ SubSeq(dir_list[k], 1, Len(filename)) = filename
  THEN dir_list[CHOOSE k \in 1..Len(dir_list) :
                  /\ Len(dir_list[k]) >= Len(filename)
                  /\ SubSeq(dir_list[k], 1, Len(filename)) = filename
                  /\ \A j \in 1..(k - 1) :
                        ~(/\ Len(dir_list[j]) >= Len(filename)
                          /\ SubSeq(dir_list[j], 1, Len(filename)) = filename)]
  ELSE None

filename_lookup(filename, dir_list) == LookupFrom(filename, dir_list, 1)


(* -------------------------------- Order --------------------------------- *)
\* const.Sizes.all, which is also dirmap.TEMP_FOLDERS: one staging folder per size
Sizes == {"8x10", "5x7"}

TEMP_FOLDERS == Sizes

\* Order(...) followed by __post_init__; deal_name and design are carried by the
\* code but never read by reconciliation or staging, so they are left out.
Order(item_name, size, quantity, sku) ==
  LET n == get_set_size(item_name) IN
  [item_name |-> item_name, size |-> size, quantity |-> quantity, sku |-> sku,
   set_size |-> n, is_set |-> n > 1, is_valid |-> FALSE, filenames |-> <<>>]

\* Python truthiness of a filenames slot: None and "" are falsy
Truthy(x) == x # None /\ x # <<>>

\* any(self.filenames) in the place of all(self.filenames)
any(xs) == \E k \in 1..Len(xs) : Truthy(xs[k])

\* all(self.filenames)
all(xs) == \A k \in 1..Len(xs) : Truthy(xs[k])

\* the slots one call of confirm_filename appends for a set: range(set_size),
\* cut where string.ascii_lowercase[i] raises IndexError
SetSlots(order, dir_list) ==
  LET n == IF order.set_size <= Len(ascii_lowercase) THEN order.set_size
           ELSE Len(ascii_lowercase)
  IN  [i \in 1..n |-> filename_lookup(order.sku \o <<ascii_lowercase[i]>>, dir_list)]

\* Order.confirm_filename: the order afterwards and whether the call raised
confirm_filename(order, dir_list) ==
  IF order.is_set
  THEN IF order.set_size > Len(ascii_lowercase)
       THEN [order  |-> [order EXCEPT !.filenames = @ \o SetSlots(order, dir_list)],
             raised |-> TRUE]
       ELSE LET fs == order.filenames \o SetSlots(order, dir_list) IN
            [order  |-> [order EXCEPT !.filenames = fs, !.is_valid = all(fs)],
             raised |-> FALSE]
  ELSE LET fs == Append(order.filenames, filename_lookup(order.sku, dir_list)) IN
       [order  |-> [order EXCEPT !.filenames = fs, !.is_valid = all(fs)],
        raised |-> FALSE]

\* the loop of OrderList.confirm_filenames from order k on; valid is the list of
\* results so far.  An exception leaves the list as it is at that moment and
\* returns nothing.
RECURSIVE ConfirmFrom(_, _, _, _)
ConfirmFrom(os, k, valid, dir_list) ==
  IF k > Len(os)
  THEN [orders |-> os, error |-> "none",
        ret |-> Cardinality({j \in 1..Len(valid) : ~valid[j]})]
  ELSE LET r == confirm_filename(os[k], dir_list)
           os2 == [os EXCEPT ![k] = r.order]
       IN  IF r.raised
           THEN [orders |-> os2, error |-> "IndexError", ret |-> -1]
           ELSE ConfirmFrom(os2, k + 1, Append(valid, r.order.is_valid), dir_list)

confirm_filenames(os, dir_list) == ConfirmFrom(os, 1, <<>>, dir_list)

(* ------------------------------- staging -------------------------------- *)
\* f.find(".") looking from index k up; 0 if there is none
RECURSIVE FindDot(_, _)
FindDot(f, k) ==
  IF k > Len(f) THEN 0 ELSE IF f[k] = "." THEN k ELSE FindDot(f, k + 1)

\* f.split("."): the parts between the dots
RECURSIVE Split(_)
Split(f) ==
  LET d == FindDot(f, 1) IN
  IF d = 0 THEN <<f>>
  ELSE <<SubSeq(f, 1, d - 1)>> \o Split(SubSeq(f, d + 1, Len(f)))

\* fname + f"_{str(i)}." + ext
DestName(fname, i, ext) == fname \o <<"_">> \o Str(i) \o <<".">> \o ext

\* a suffix taken without looking at the folder
NextFreeNoScan(dir, fname, ext, i) == i

\* a suffix computed from the number of files the folder holds
NextFreeByCount(dir, fname, ext, i) == Cardinality(DOMAIN dir) + i

\* while os.path.exists(...): i += 1
RECURSIVE NextFree(_, _, _, _)
NextFree(dir, fname, ext, i) ==
  IF DestName(fname, i, ext) \in DOMAIN dir THEN NextFree(dir, fname, ext, i + 1) ELSE i

\* shutil.copy(src, dst): dst holds the bytes of src afterwards, whether or not
\* it existed; a file's content is named by the source file it was copied from
shutil_copy(dir, src, dst) ==
  [n \in (DOMAIN dir) \cup {dst} |-> IF n = dst THEN src ELSE dir[n]]

\* Order.temp_folder: the staging folder of the order's size
temp_folder(order) == order.size

\* the loop of Order._copy_once from filenames[k] on.  st = [temp, log, error];
\* log records every copy made: by which order, in which folder, from, to.
RECURSIVE CopyOnceFrom(_, _, _, _)
CopyOnceFrom(order, idx, k, st) ==
  IF k > Len(order.filenames) THEN st
  ELSE LET f == order.filenames[k]
           parts == Split(f)
       IN  IF Len(parts) # 2
           THEN [st EXCEPT !.error = "ValueError"]
           ELSE LET fname == parts[1]
                    ext   == parts[2]
                    dir   == st.temp[temp_folder(order)]
                    i     == NextFree(dir, fname, ext, 1)
                    dst   == DestName(fname, i, ext)
                IN  CopyOnceFrom(order, idx, k + 1,
                      [temp  |-> [st.temp EXCEPT ![temp_folder(order)] =
                                     shutil_copy(dir, f, dst)],
                       log   |-> Append(st.log,
                                   [order |-> idx, folder |-> temp_folder(order),
                                    src |-> f, dst |-> dst]),
                       error |-> st.error])

copy_once(order, idx, st) == CopyOnceFrom(order, idx, 1, st)

\* for _ in range(self.quantity): self._copy_once()
RECURSIVE CopyTimes(_, _, _, _)
CopyTimes(order, idx, q, st) ==
  IF q = 0 \/ st.error # "none" THEN st
  ELSE CopyTimes(order, idx, q - 1, copy_once(order, idx, st))

\* Order.copy_to_temp
copy_to_temp(order, idx, st) ==
  IF ~order.is_valid THEN st ELSE CopyTimes(order, idx, order.quantity, st)

\* the loop of OrderList.copy_all from order k on
RECURSIVE CopyAllFrom(_, _, _)
CopyAllFrom(os, k, st) ==
  IF k > Len(os) \/ st.error # "none" THEN st
  ELSE CopyAllFrom(os, k + 1, copy_to_temp(os[k], k, st))

copy_all(os, tmp) == CopyAllFrom(os, 1, [temp |-> tmp, log |-> <<>>, error |-> "none"])

(* ------------------------------- inputs --------------------------------- *)
ItemMug   == <<"M","u","g">>
ItemSet2  == <<"S","e","t"," ","O","f"," ","2"," ","X">>
ItemSet3  == <<"s","e","t"," ","O","F"," ","3">>
ItemSet0  == <<"S","e","t"," ","O","f"," ","0">>
ItemSet27 == <<"P","k"," ","S","e","t"," ","O","f"," ","2","7">>

FileAp  == <<"A",".","p">>
FileAq  == <<"A",".","q">>
FileAbp == <<"A","b",".","p">>
FileSap == <<"S","a",".","p">>
FileSbp == <<"S","b",".","p">>
FileScp == <<"S","c",".","p">>
FileTap == <<"T","a",".","p">>
FileTb  == <<"T","b">>
FileDxp == <<"D",".","x",".","p">>

\* the os.listdir(SKU_DIR) snapshot: A.q shares its stem with A.p, Ab.p has A
\* as a prefix, T's second set member has no extension, D.x.p has two dots
Library == <<FileAp, FileAbp, FileAq, FileSap, FileSbp, FileScp, FileTap, FileTb, FileDxp>>

\* manifest rows: item name, SKU, size, quantity
Rows ==
  { <<ItemMug,   <<"A">>,         "8x10", 2>>,
    <<ItemMug,   <<"A">>,         "5x7",  3>>,
    <<ItemMug,   <<"Z">>,         "8x10", 1>>,
    <<ItemMug,   <<"D",".","x">>, "8x10", 1>>,
    <<ItemSet3,  <<"S">>,         "5x7",  2>>,
    <<ItemSet2,  <<"A">>,         "8x10", 2>>,
    <<ItemSet2,  <<"T">>,         "5x7",  1>>,
    <<ItemSet0,  <<"A">>,         "5x7",  1>>,
    <<ItemSet27, <<"S">>,         "8x10", 1>> }

NewOrders == { Order(r[1], r[3], r[4], r[2]) : r \in Rows }

RECURSIVE SeqsOf(_, _)
SeqsOf(S, n) ==
  IF n = 0 THEN {<<>>} ELSE { Append(s, x) : s \in SeqsOf(S, n - 1), x \in S }

\* OrderList.from_csv / from_pdf: one Order per manifest row, in row order
Manifests == UNION { SeqsOf(NewOrders, n) : n \in 1..MaxOrders }

EmptyDir == [n \in {} |-> <<>>]

\* a file left in a staging folder by an earlier session, whose _1 sibling was removed
LeftOver == <<"A","_","2",".","p">>

\* DirMap.setup_temp_folders creates the folders that are missing and keeps
\* what the others hold
TempDirs ==
  { [s \in TEMP_FOLDERS |-> EmptyDir],
    [s \in TEMP_FOLDERS |-> IF s = "8x10" THEN (LeftOver :> <<"old">>) ELSE EmptyDir] }

(* ---------------------------- state machine ----------------------------- *)
Init ==
  /\ SKU_DIR_FILENAMES = Library
  /\ orders \in Manifests
  /\ temp \in TempDirs
  /\ copies = <<>>
  /\ error = "none"
  /\ ret = -1
  /\ nConfirm = 0
  /\ nCopy = 0
  /\ lastOp = "load"

\* order_list.confirm_filenames()
ConfirmFilenames ==
  /\ error = "none"
  /\ nConfirm < MaxConfirm
  /\ LET r == confirm_filenames(orders, SKU_DIR_FILENAMES) IN
       /\ orders' = r.orders
       /\ error' = r.error
       /\ ret' = r.ret
  /\ nConfirm' = nConfirm + 1
  /\ lastOp' = "confirm"
  /\ copies' = <<>>
  /\ UNCHANGED <<SKU_DIR_FILENAMES, temp, nCopy>>

\* order_list.copy_all()
CopyAll ==
  /\ error = "none"
  /\ nCopy < MaxCopy
  /\ LET st == copy_all(orders, temp) IN
       /\ temp' = st.temp
       /\ copies' = st.log
       /\ error' = st.error
  /\ nCopy' = nCopy + 1
  /\ lastOp' = "copy"
  /\ UNCHANGED <<SKU_DIR_FILENAMES, orders, ret, nConfirm>>

\* DirMap.clear_temp_folders()
ClearTempFolders ==
  /\ error = "none"
  /\ \E s \in TEMP_FOLDERS : DOMAIN temp[s] # {}
  /\ temp' = [s \in TEMP_FOLDERS |-> EmptyDir]
  /\ lastOp' = "clear"
  /\ copies' = <<>>
  /\ UNCHANGED <<SKU_DIR_FILENAMES, orders, error, ret, nConfirm, nCopy>>

Next == ConfirmFilenames \/ CopyAll \/ ClearTempFolders

Spec == Init /\ [][Next]_vars

(* ------------------- filename_lookup over all listings ------------------ *)
MaxListing == 3

FileLowAp == <<"a",".","p">>

LookupFiles == {FileAp, FileAbp, FileAq, FileLowAp, FileTb, FileDxp}

LookupKeys == { <<"A">>, <<"A","a">>, <<"A","b">>, <<"a">>, <<"T","b">>, <<"D">>, <<"D",".","x">> }

\* one single-file order per key, reconciled against any listing of up to
\* MaxListing names
InitLookup ==
  /\ SKU_DIR_FILENAMES \in UNION { SeqsOf(LookupFiles, n) : n \in 0..MaxListing }
  /\ orders \in { <<Order(ItemMug, "8x10", 1, k)>> : k \in LookupKeys }
  /\ temp = [s \in TEMP_FOLDERS |-> EmptyDir]
  /\ copies = <<>>
  /\ error = "none"
  /\ ret = -1
  /\ nConfirm = 0
  /\ nCopy = 0
  /\ lastOp = "load"

SpecLookup == InitLookup /\ [][ConfirmFilenames]_vars

(* ------------------------------ properties ------------------------------ *)
\* a step that is one run of copy_all
CopyStep == nCopy' = nCopy + 1

\* the copies of the last run made on behalf of order i
CopiesOf(i) == { k \in 1..Len(copies) : copies[k].order = i }

\* some filenames slot of the order holds no match
HasUnresolved(o) == \E k \in 1..Len(o.filenames) : o.filenames[k] = None

\* <stem>_<n><.extension> of a source name
Suffixed(f, n) == splitext(f)[1] \o <<"_">> \o Str(n) \o splitext(f)[2]

\* every file a staging folder held before the run is there afterwards with the
\* same content, and every copy of the run added a file of its own
FilesKept ==
  \A s \in TEMP_FOLDERS :
    /\ \A n \in DOMAIN temp[s] : n \in DOMAIN temp'[s] /\ temp'[s][n] = temp[s][n]
    /\ Cardinality(DOMAIN temp'[s]) =
         Cardinality(DOMAIN temp[s])
           + Cardinality({ k \in 1..Len(copies') : copies'[k].folder = s })

\* a run that completes on a manifest of one valid single-file order of quantity 2
\* turns an empty folder into {_1, _2} and that folder into {_1, _2, _3, _4}
TwiceGivesFour ==
  ( /\ Len(orders) = 1
    /\ ~orders[1].is_set
    /\ orders[1].is_valid
    /\ Len(orders[1].filenames) = 1
    /\ orders[1].quantity = 2
    /\ error' = "none" )
  => LET f == orders[1].filenames[1]
         s == orders[1].size
     IN  /\ (DOMAIN temp[s] = {})
               => DOMAIN temp'[s] = { Suffixed(f, 1), Suffixed(f, 2) }
         /\ (DOMAIN temp[s] = { Suffixed(f, 1), Suffixed(f, 2) })
               => DOMAIN temp'[s] = { Suffixed(f, n) : n \in 1..4 }

StagingQuantityExact ==
  (lastOp = "copy" /\ nConfirm >= 1)
  => \A i \in 1..Len(orders) :
       orders[i].is_valid
         => Cardinality(CopiesOf(i)) = orders[i].quantity * orders[i].set_size

\* C3: a second reconciliation pass over the same listing leaves every record's
\* is_valid and filenames as the first pass left them.
ReconciliationIdempotent ==
  [][(nConfirm = 1 /\ nConfirm' = 2 /\ error' = "none")
       => \A i \in 1..Len(orders) :
            /\ orders'[i].is_valid = orders[i].is_valid
            /\ orders'[i].filenames = orders[i].filenames]_vars

\* the keys an order needs in the listing
RequiredKeys(o) ==
  IF o.is_set THEN { o.sku \o <<ascii_lowercase[i]>> : i \in 1..o.set_size }
  ELSE { o.sku }

KeyExists(key, dir_list) ==
  \E k \in 1..Len(dir_list) : splitext(dir_list[k])[1] = key

\* C4: the value confirm_filenames returns is the number of records with an
\* unresolved slot, is_valid holds exactly of the records without one, and the
\* value is 0 when every required key is in the listing.
InvalidCountIsReturned ==
  (lastOp = "confirm" /\ error = "none")
  => /\ ret = Cardinality({ i \in 1..Len(orders) : HasUnresolved(orders[i]) })
     /\ \A i \in 1..Len(orders) : orders[i].is_valid <=> ~HasUnresolved(orders[i])
     /\ (\A i \in 1..Len(orders) : \A key \in RequiredKeys(orders[i]) :
            KeyExists(key, SKU_DIR_FILENAMES))
          => ret = 0

\* C4 witness: a pass over two records returned 1, the invalid record being a
\* set with one slot resolved and one not
OneInvalidOfTwo ==
  /\ lastOp = "confirm"
  /\ error = "none"
  /\ Len(orders) = 2
  /\ ret = 1
  /\ \E i \in 1..Len(orders) :
       /\ HasUnresolved(orders[i])
       /\ \E k \in 1..Len(orders[i].filenames) : orders[i].filenames[k] # None

\* C5: after one pass every record has set_size slots: the lookup of the SKU for
\* a single record, the lookups of SKU + a, b, c, ... in order for a set.
SlotsMatchSetSize ==
  (nConfirm = 1 /\ error = "none")
  => \A i \in 1..Len(orders) :
       LET o == orders[i] IN
       /\ Len(o.filenames) = o.set_size
       /\ IF o.is_set
          THEN \A k \in 1..Len(o.filenames) :
                 o.filenames[k] =
                   filename_lookup(o.sku \o <<ascii_lowercase[k]>>, SKU_DIR_FILENAMES)
          ELSE o.filenames = <<filename_lookup(o.sku, SKU_DIR_FILENAMES)>>

\* C6: a record whose set size exceeds the alphabet is reconciled without an
\* error: it gets set_size slots and is marked invalid.
AbsurdSetSizeIsInvalid ==
  (nConfirm = 1)
  => \A i \in 1..Len(orders) :
       (orders[i].set_size > Len(ascii_lowercase))
         => /\ error = "none"
            /\ Len(orders[i].filenames) = orders[i].set_size
            /\ ~orders[i].is_valid

\* C7: a reconcile-then-stage run over a manifest mixing valid and invalid
\* records completes, copies nothing for the invalid records and stages every
\* valid record in full.
UnmatchedIsNonFatal ==
  ( /\ lastOp = "copy" /\ nConfirm = 1 /\ nCopy = 1
    /\ \E i \in 1..Len(orders) : orders[i].is_valid
    /\ \E i \in 1..Len(orders) : ~orders[i].is_valid )
  => /\ error = "none"
     /\ \A i \in 1..Len(orders) :
          IF orders[i].is_valid
          THEN Cardinality(CopiesOf(i)) = orders[i].quantity * Len(orders[i].filenames)
          ELSE CopiesOf(i) = {}

\* the first listing entry whose name without extension is the key, None if
\* there is none
FirstWithStem(key, dir_list) ==
  IF KeyExists(key, dir_list)
  THEN dir_list[CHOOSE k \in 1..Len(dir_list) :
                  /\ splitext(dir_list[k])[1] = key
                  /\ \A j \in 1..(k - 1) : splitext(dir_list[j])[1] # key]
  ELSE None

FirstFree(k) ==
  LET e == copies'[k]
      existing == DOMAIN temp[e.folder]
                    \cup { copies'[j].dst :
                             j \in { x \in 1..(k - 1) : copies'[x].folder = e.folder } }
      d == LastDot(e.src)
      name(n) == SubSeq(e.src, 1, d - 1) \o <<"_">> \o Str(n)
                   \o SubSeq(e.src, d, Len(e.src))
  IN  /\ e.folder = orders[e.order].size
      /\ temp'[e.folder][e.dst] = e.src
      /\ \E n \in 1..(Cardinality(existing) + 1) :
           /\ e.dst = name(n)
           /\ name(n) \notin existing
           /\ \A m \in 1..(n - 1) : name(m) \in existing

\* C9: every copy made by _copy_once is named <stem>_<n>.<extension> with n the
\* smallest positive integer free in the order's staging folder at that moment.
DestinationIsFirstFree ==
  [][CopyStep => \A k \in 1..Len(copies') : FirstFree(k)]_vars

\* C9 witness: with A_2.p left in the folder, one run of quantity 2 wrote A_1.p
\* (the gap) and then A_3.p
GapReused ==
  /\ lastOp = "copy"
  /\ LeftOver \in DOMAIN temp["8x10"]
  /\ temp["8x10"][LeftOver] = <<"old">>
  /\ Len(copies) = 2
  /\ copies[1].dst = <<"A","_","1",".","p">>
  /\ copies[2].dst = <<"A","_","3",".","p">>

\* C10: every filename the lookup returns is staged without an error, under a
\* name whose stem is the lookup stem followed by _<n>.
LookupAndStagingAgree ==
  (lastOp = "copy")
  => /\ error = "none"
     /\ \A k \in 1..Len(copies) :
          \E n \in 1..(Cardinality(DOMAIN temp[copies[k].folder])) :
            splitext(copies[k].dst)[1] = splitext(copies[k].src)[1] \o <<"_">> \o Str(n)

=============================================================================
